---- MODULE Spec2Model ----
(***************************************************************************)
(* Model of the change classification and application engine of            *)
(* rewrite-go: Rewriter.ProcessFiles / processFile / matchesPatterns       *)
(* (rewriter.go) and Runner.applyChanges / writeFile /                     *)
(* cleanupEmptyDirectories / isEmptyDir (runner.go).                       *)
(*                                                                         *)
(* A path relative to the build root is a sequence of segments; the build  *)
(* root itself is the empty sequence.  The text handled by the pattern     *)
(* matcher is a sequence of one-character strings.                         *)
(***************************************************************************)
EXTENDS Integers, Sequences, FiniteSets, TLC

VARIABLES
    files,        \* disk: file path -> content, or Absent
    dirs,         \* disk: the set of existing directories (root = <<>>)
    buildRoot,    \* results.ProjectRoot: "abs" ("/proj") or "dot" (".")
    results,      \* the ResultsContainer handed to applyChanges
    pc,           \* position inside applyChanges
    idx,          \* loop index of the bucket / of sortedDirs being walked
    sortedDirs,   \* cleanupEmptyDirectories: candidates, deepest first
    removedDirs,  \* cleanupEmptyDirectories: directories removed so far
    err,          \* the error applyChanges returned, NoErr while none
    applied,      \* history: the changes applied so far, <<bucket, index>>
    run,          \* 1 on the first applyChanges, 2 when it is run again
    files0,       \* history: disk files when this run of applyChanges began
    dirs0,        \* history: disk directories when this run began
    pruned,       \* history: each removal, the entries the directory had
    rmdirFailed,  \* history: os.Remove of an empty candidate has failed
    logged,       \* the lines applyChanges has written to Runner.Logger
    sourceFiles,  \* ProcessFiles: the discovered files still to process
    recipe,       \* the transformation applyRecipes performs
    container,    \* ProcessFiles: the ResultsContainer being built
    processed,    \* history: the files ProcessFiles has handled
    ppc,          \* position inside ProcessFiles
    mPath,        \* matchesPatterns: the path argument
    mPatterns,    \* matchesPatterns: the patterns argument
    mResult,      \* matchesPatterns: the value returned
    mpc,          \* position of the matcher call
    config,       \* the Config the Rewriter and the Runner read
    walk,         \* FindSourceFiles: the state of the filepath.Walk
    runner,       \* Runner.Execute / Runner.DryRun: mode, position, error
                  \* returned, lines logged outside applyChanges, and the
                  \* Rewriter's BaseDir and Environment
    report        \* reportAndApplyResults: the results, the total, its text

vars == <<files, dirs, buildRoot, results, pc, idx, sortedDirs, removedDirs,
          err, applied, run, files0, dirs0, pruned, rmdirFailed, sourceFiles,
          logged, recipe, container, processed, ppc, mPath, mPatterns,
          mResult, mpc, config, walk, runner, report>>

applyVars == <<files, dirs, buildRoot, results, pc, idx, sortedDirs,
               removedDirs, err, applied, run, files0, dirs0, pruned,
               rmdirFailed, logged>>
processVars == <<sourceFiles, recipe, container, processed, ppc>>
matchVars == <<mPath, mPatterns, mResult, mpc>>
runVars == <<config, walk, runner, report>>

-----------------------------------------------------------------------------
(* Bounds *)

\* the largest number of changes a ResultsContainer holds in the model
MaxChanges == 2

-----------------------------------------------------------------------------
(* Data *)

\* an absent *SourceFile (a nil pointer)
Nil == [nil |-> TRUE]
Absent == "absent"    \* no file at that path
NoErr == "none"

\* the files of the modelled project tree
FilePaths == {<<"f">>, <<"a", "f">>, <<"a", "b", "f">>}
\* content on disk before any change, and the content a recipe may produce
DiskContent == "c0"
NewContent == "c1"
Contents == {DiskContent, NewContent}

\* SourceFile{Path, Content}; Charset is always "UTF-8" and Modified always
\* false in the source, and neither is read by the code modelled here
SourceFile(p, c) == [Path |-> p, Content |-> c]

\* Result{Before, After}
Result(b, a) == [Before |-> b, After |-> a]

\* filepath.Dir of a relative path
Dir(p) == SubSeq(p, 1, Len(p) - 1)

\* every directory os.MkdirAll(d) makes sure exists: d and its ancestors
Ancestors(d) == {SubSeq(d, 1, n) : n \in 0..Len(d)}

-----------------------------------------------------------------------------
(* The operating system calls the applicator makes *)

\* os.MkdirAll(d): d and every missing ancestor exist afterwards
MkdirAll(ds, d) == ds \cup Ancestors(d)

\* os.WriteFile(p, c): create or truncate the file at p
WriteFileIfAbsent(fs, p, c) == IF fs[p] = Absent THEN [fs EXCEPT ![p] = c] ELSE fs
WriteFile(fs, p, c) == [fs EXCEPT ![p] = c]

\* os.Remove(p) of a file: the file is gone (not-exist is reported, not fatal)
RemoveFile(fs, p) == [fs EXCEPT ![p] = Absent]

\* os.Rename(old, new) when it succeeds: the file at old, with the content
\* it has on disk, is now at new, replacing what was there
Rename(fs, old, new) == [fs EXCEPT ![new] = fs[old], ![old] = Absent]

\* os.ReadDir(d): the entries of d, files and sub-directories
Entries(fs, ds, d) ==
    {p \in FilePaths : fs[p] # Absent /\ Dir(p) = d}
        \cup {s \in ds : Len(s) = Len(d) + 1 /\ Dir(s) = d}

\* Runner.isEmptyDir: a directory that cannot be read is not empty
isEmptyDir(fs, ds, d) ==
    IF d \notin ds THEN FALSE ELSE Cardinality(Entries(fs, ds, d)) = 0

\* Runner.writeFile: MkdirAll of the parent, then WriteFile.  The set of
\* outcomes: either call may fail, and a failed WriteFile leaves the
\* directories MkdirAll made.
writeFileNoMkdir(fs, ds, sf) ==
    {[files |-> WriteFile(fs, sf.Path, sf.Content), dirs |-> ds,
      err |-> NoErr],
     [files |-> fs, dirs |-> ds, err |-> "write"]}
writeFile(fs, ds, sf) ==
    LET d == Dir(sf.Path)
        made == MkdirAll(ds, d)
    IN  {[files |-> WriteFile(fs, sf.Path, sf.Content), dirs |-> made,
          err |-> NoErr],
         [files |-> fs, dirs |-> made, err |-> "write"]}
        \cup (IF made # ds
              THEN {[files |-> fs, dirs |-> ds, err |-> "mkdir"]}
              ELSE {})

-----------------------------------------------------------------------------
(* Runner.applyChanges: positions *)

\* the order in which applyChanges walks the four buckets
BucketOrderSwapped == <<"Generated", "Moved", "Deleted", "RefactoredInPlace">>
BucketOrder == <<"Generated", "Deleted", "Moved", "RefactoredInPlace">>

\* the first bucket at or after position k of BucketOrder that has an entry;
\* "cleanup" when the four loops are over
RECURSIVE BucketFrom(_, _)
BucketFrom(rc, k) ==
    IF k > Len(BucketOrder) THEN "cleanup"
    ELSE IF Len(rc[BucketOrder[k]]) > 0 THEN BucketOrder[k]
    ELSE BucketFrom(rc, k + 1)

BucketIndex(b) == CHOOSE k \in 1..Len(BucketOrder) : BucketOrder[k] = b

\* the position after entry i of bucket b: the next entry of the range
\* loop, or the first entry of the next bucket that has one
After(rc, b, i) ==
    IF i < Len(rc[b]) THEN [pc |-> b, idx |-> i + 1]
    ELSE [pc |-> BucketFrom(rc, BucketIndex(b) + 1), idx |-> 1]

-----------------------------------------------------------------------------
(* Runner.cleanupEmptyDirectories: candidates and their order *)

\* filepath.Dir(filepath.Join(buildRoot, Before.Path)) of the Deleted and
\* Moved entries, as a set (the dirMap of the code)
CandidatesWithAncestors(rc) ==
    UNION {Ancestors(Dir(rc.Deleted[i].Before.Path)) :
        i \in {j \in DOMAIN rc.Deleted : rc.Deleted[j].Before # Nil}}
    \cup UNION {Ancestors(Dir(rc.Moved[i].Before.Path)) :
        i \in {j \in DOMAIN rc.Moved : rc.Moved[j].Before # Nil}}
CandidateDirs(rc) ==
    {Dir(rc.Deleted[i].Before.Path) :
        i \in {j \in DOMAIN rc.Deleted : rc.Deleted[j].Before # Nil}}
    \cup {Dir(rc.Moved[i].Before.Path) :
        i \in {j \in DOMAIN rc.Moved : rc.Moved[j].Before # Nil}}

\* strings.Count(dir, separator) of the joined path: "/proj/a/b" has one
\* separator per segment and one for the root; under the root "." the
\* joined path of a/b is "a/b" and the root itself is ".": the root and
\* its children count the same (as they do under the root "/")
Depth(root, d) ==
    IF root = "abs" THEN Len(d) + 1
    ELSE IF Len(d) = 0 THEN 0 ELSE Len(d) - 1

Swap(s, i, j) == [s EXCEPT ![i] = s[j], ![j] = s[i]]

\* the two nested loops of the code: for i, for j > i, swap when the
\* entry at i is shallower than the entry at j
RECURSIVE SortInnerShallowFirst(_, _, _, _)
SortInnerShallowFirst(root, s, i, j) ==
    IF j > Len(s) THEN s
    ELSE SortInnerShallowFirst(root,
                   IF Depth(root, s[i]) > Depth(root, s[j])
                   THEN Swap(s, i, j) ELSE s,
                   i, j + 1)
RECURSIVE SortInner(_, _, _, _)
SortInner(root, s, i, j) ==
    IF j > Len(s) THEN s
    ELSE SortInner(root,
                   IF Depth(root, s[i]) < Depth(root, s[j])
                   THEN Swap(s, i, j) ELSE s,
                   i, j + 1)

RECURSIVE SortOuter(_, _, _)
SortOuter(root, s, i) ==
    IF i > Len(s) THEN s
    ELSE SortOuter(root, SortInner(root, s, i, i + 1), i + 1)

SortByDepth(root, s) == SortOuter(root, s, 1)

\* the orders in which ranging over the map can yield the candidates
MapOrders(S) ==
    {s \in [1..Cardinality(S) -> S] :
        \A i, j \in DOMAIN s : i # j => s[i] # s[j]}

-----------------------------------------------------------------------------
(* Runner.applyChanges: the steps *)

\* applyChanges returns err: nothing after the failing call runs
FailThenCleanup(e) ==
    /\ err' = e
    /\ pc' = "cleanup"
    /\ UNCHANGED <<idx, sortedDirs, removedDirs, applied, pruned>>
Fail(e) ==
    /\ err' = e
    /\ pc' = "done"
    /\ UNCHANGED <<idx, sortedDirs, removedDirs, applied, pruned>>

\* the range loop moves on to the next entry
Advance(b) ==
    /\ pc' = After(results, b, idx).pc
    /\ idx' = After(results, b, idx).idx
    /\ applied' = Append(applied, <<b, idx>>)
    /\ UNCHANGED <<err, sortedDirs, removedDirs, pruned>>

\* runner.go 166-174: write a generated file
ApplyGenerated ==
    /\ pc = "Generated"
    /\ LET result == results.Generated[idx]
       IN  IF result.After = Nil
           THEN /\ UNCHANGED <<files, dirs>>
                /\ Advance("Generated")
           ELSE \E o \in writeFile(files, dirs, result.After) :
                    /\ files' = o.files
                    /\ dirs' = o.dirs
                    /\ IF o.err = NoErr THEN Advance("Generated")
                       ELSE Fail(o.err)
    /\ UNCHANGED <<buildRoot, results, run, files0, dirs0, rmdirFailed>>
    /\ UNCHANGED <<logged, processVars, matchVars, runVars>>

\* runner.go 176-185: remove a deleted file; not-exist is tolerated
ApplyDeletedStrict ==
    /\ pc = "Deleted"
    /\ LET result == results.Deleted[idx]
       IN  IF result.Before = Nil
           THEN /\ UNCHANGED files
                /\ Advance("Deleted")
           ELSE \/ /\ files[result.Before.Path] # Absent
                   /\ files' = RemoveFile(files, result.Before.Path)
                   /\ Advance("Deleted")
                \/ /\ UNCHANGED files
                   /\ Fail("delete")
    /\ UNCHANGED <<dirs, buildRoot, results, run, files0, dirs0, rmdirFailed>>
    /\ UNCHANGED <<logged, processVars, matchVars, runVars>>
ApplyDeleted ==
    /\ pc = "Deleted"
    /\ LET result == results.Deleted[idx]
       IN  IF result.Before = Nil
           THEN /\ UNCHANGED files
                /\ Advance("Deleted")
           ELSE \/ /\ files' = RemoveFile(files, result.Before.Path)
                   /\ Advance("Deleted")
                \/ /\ files[result.Before.Path] # Absent
                   /\ UNCHANGED files
                   /\ Fail("delete")
    /\ UNCHANGED <<dirs, buildRoot, results, run, files0, dirs0, rmdirFailed>>
    /\ UNCHANGED <<logged, processVars, matchVars, runVars>>

\* runner.go 188-202: MkdirAll of the target directory, then os.Rename.
\* A rename of a missing file fails; a rename of an existing file succeeds
\* or fails (another device, a permission) as the system decides.
ApplyMoved ==
    /\ pc = "Moved"
    /\ LET result == results.Moved[idx]
       IN  IF result.Before = Nil \/ result.After = Nil
           THEN /\ UNCHANGED <<files, dirs>>
                /\ Advance("Moved")
           ELSE LET old == result.Before.Path
                    new == result.After.Path
                    made == MkdirAll(dirs, Dir(new))
                IN  \/ /\ made # dirs
                       /\ UNCHANGED <<files, dirs>>
                       /\ Fail("mkdir")
                    \/ /\ files[old] # Absent
                       /\ files' = Rename(files, old, new)
                       /\ dirs' = made
                       /\ Advance("Moved")
                    \/ /\ dirs' = made
                       /\ UNCHANGED files
                       /\ pc' = "FallbackWrite"
                       /\ UNCHANGED <<idx, err, sortedDirs, removedDirs,
                                      applied, pruned>>
    /\ UNCHANGED <<buildRoot, results, run, files0, dirs0, rmdirFailed>>
    /\ UNCHANGED <<logged, processVars, matchVars, runVars>>

\* runner.go 203-207: the rename failed, write the after-content
MovedFallbackRemoveFirst ==
    /\ pc = "FallbackWrite"
    /\ \E o \in writeFile(RemoveFile(files, results.Moved[idx].Before.Path),
                          dirs, results.Moved[idx].After) :
          /\ files' = o.files
          /\ dirs' = o.dirs
          /\ IF o.err = NoErr
             THEN /\ pc' = "FallbackRemove"
                  /\ UNCHANGED <<idx, err, sortedDirs, removedDirs, applied,
                                 pruned>>
             ELSE Fail(o.err)
    /\ UNCHANGED <<buildRoot, results, run, files0, dirs0, rmdirFailed>>
    /\ UNCHANGED <<logged, processVars, matchVars, runVars>>
MovedFallbackWrite ==
    /\ pc = "FallbackWrite"
    /\ \E o \in writeFile(files, dirs, results.Moved[idx].After) :
          /\ files' = o.files
          /\ dirs' = o.dirs
          /\ IF o.err = NoErr
             THEN /\ pc' = "FallbackRemove"
                  /\ UNCHANGED <<idx, err, sortedDirs, removedDirs, applied,
                                 pruned>>
             ELSE Fail(o.err)
    /\ UNCHANGED <<buildRoot, results, run, files0, dirs0, rmdirFailed>>
    /\ UNCHANGED <<logged, processVars, matchVars, runVars>>

\* runner.go 208-211: then remove the old file; not-exist is tolerated
MovedFallbackRemove ==
    /\ pc = "FallbackRemove"
    /\ LET old == results.Moved[idx].Before.Path
       IN  \/ /\ files' = RemoveFile(files, old)
              /\ Advance("Moved")
           \/ /\ files[old] # Absent
              /\ UNCHANGED files
              /\ Fail("remove-old")
    /\ UNCHANGED <<dirs, buildRoot, results, run, files0, dirs0, rmdirFailed>>
    /\ UNCHANGED <<logged, processVars, matchVars, runVars>>

\* runner.go 216-224: overwrite a file refactored in place
ApplyRefactored ==
    /\ pc = "RefactoredInPlace"
    /\ LET result == results.RefactoredInPlace[idx]
       IN  IF result.After = Nil
           THEN /\ UNCHANGED <<files, dirs>>
                /\ Advance("RefactoredInPlace")
           ELSE \E o \in writeFile(files, dirs, result.After) :
                    /\ files' = o.files
                    /\ dirs' = o.dirs
                    /\ IF o.err = NoErr THEN Advance("RefactoredInPlace")
                       ELSE Fail(o.err)
    /\ UNCHANGED <<buildRoot, results, run, files0, dirs0, rmdirFailed>>
    /\ UNCHANGED <<logged, processVars, matchVars, runVars>>

\* runner.go 256-294: collect the candidates, drop duplicates, sort
Cleanup ==
    /\ pc = "cleanup"
    /\ \E order \in MapOrders(CandidateDirs(results)) :
          sortedDirs' = SortByDepth(buildRoot, order)
    /\ removedDirs' = <<>>
    /\ pc' = IF CandidateDirs(results) = {} THEN "done" ELSE "prune"
    /\ idx' = 1
    /\ UNCHANGED <<files, dirs, buildRoot, results, err, applied, run,
                   files0, dirs0, pruned, rmdirFailed>>
    /\ UNCHANGED <<logged, processVars, matchVars, runVars>>

\* os.Remove(dir) of a directory can succeed only when rmdir accepts it:
\* never for a directory with entries, never for "."
Removable(root, fs, ds, d) ==
    /\ d \in ds
    /\ Entries(fs, ds, d) = {}
    /\ ~(root = "dot" /\ d = <<>>)

\* runner.go 298-305, one candidate: remove it when isEmptyDir says so
\* and os.Remove succeeds; a failure is ignored
PruneAllStep(root, fs, ds, d) ==
    {[dirs |-> ds \ {s \in ds : Len(s) >= Len(d) /\ SubSeq(s, 1, Len(d)) = d},
      files |-> [p \in FilePaths |->
                    IF Len(p) > Len(d) /\ SubSeq(p, 1, Len(d)) = d
                    THEN Absent ELSE fs[p]],
      removed |-> d \in ds]}
PruneStep(root, fs, ds, d) ==
    {[dirs |-> ds, files |-> fs, removed |-> FALSE]}
    \cup (IF isEmptyDir(fs, ds, d) /\ Removable(root, fs, ds, d)
          THEN {[dirs |-> ds \ {d}, files |-> fs, removed |-> TRUE]}
          ELSE {})

\* runner.go 307-313: the removed directories are reported, when there are any
RemovedLines(removed) ==
    IF Len(removed) > 0
    THEN <<[line |-> "Removed empty directories", dirs |-> removed]>>
    ELSE <<>>

\* runner.go 298-315 and 226-232: walk the candidates, then return nil
PruneStopsOnFailure ==
    /\ pc = "prune"
    /\ idx <= Len(sortedDirs)
    /\ \E o \in PruneStep(buildRoot, files, dirs, sortedDirs[idx]) :
          LET failed == ~o.removed /\ isEmptyDir(files, dirs, sortedDirs[idx])
          IN  /\ files' = o.files
              /\ dirs' = o.dirs
              /\ removedDirs' = IF o.removed
                                THEN Append(removedDirs, sortedDirs[idx])
                                ELSE removedDirs
              /\ pruned' = IF o.removed
                           THEN pruned \cup
                                  {[dir |-> sortedDirs[idx],
                                    entries |-> Entries(files, dirs,
                                                        sortedDirs[idx]),
                                    lost |-> {p \in FilePaths :
                                                o.files[p] # files[p]}]}
                           ELSE pruned
              /\ rmdirFailed' = (rmdirFailed \/ failed)
              /\ idx' = idx + 1
              /\ err' = IF failed THEN "cleanup" ELSE err
              /\ pc' = IF idx < Len(sortedDirs) /\ ~failed
                       THEN "prune" ELSE "done"
              /\ logged' = IF idx < Len(sortedDirs) /\ ~failed THEN logged
                           ELSE logged \o RemovedLines(removedDirs')
    /\ UNCHANGED <<buildRoot, results, sortedDirs, applied, run, files0,
                   dirs0>>
    /\ UNCHANGED <<processVars, matchVars, runVars>>
Prune ==
    /\ pc = "prune"
    /\ IF idx > Len(sortedDirs)
       THEN /\ pc' = "done"
            /\ UNCHANGED <<files, dirs, idx, removedDirs, pruned,
                           rmdirFailed, logged>>
       ELSE \E o \in PruneStep(buildRoot, files, dirs, sortedDirs[idx]) :
                /\ files' = o.files
                /\ dirs' = o.dirs
                /\ removedDirs' = IF o.removed
                                  THEN Append(removedDirs, sortedDirs[idx])
                                  ELSE removedDirs
                /\ pruned' = IF o.removed
                             THEN pruned \cup
                                    {[dir |-> sortedDirs[idx],
                                      entries |-> Entries(files, dirs,
                                                          sortedDirs[idx]),
                                      lost |-> {p \in FilePaths :
                                                  o.files[p] # files[p]}]}
                             ELSE pruned
                /\ rmdirFailed' =
                     (rmdirFailed
                        \/ (~o.removed
                              /\ isEmptyDir(files, dirs, sortedDirs[idx])
                              /\ Removable(buildRoot, files, dirs,
                                           sortedDirs[idx])))
                /\ idx' = idx + 1
                /\ pc' = IF idx < Len(sortedDirs) THEN "prune" ELSE "done"
                /\ logged' = IF idx < Len(sortedDirs) THEN logged
                              ELSE logged \o RemovedLines(removedDirs')
    /\ UNCHANGED <<buildRoot, results, sortedDirs, err, applied, run,
                   files0, dirs0>>
    /\ UNCHANGED <<processVars, matchVars, runVars>>

-----------------------------------------------------------------------------
(* The inputs of applyChanges *)

\* sequences over S of at most n entries
SeqsOfLen(S, n) == [1..n -> S]

\* the changes ProcessFiles can file in each bucket (rewriter.go 344-351)
GeneratedChanges ==
    {Result(Nil, SourceFile(p, NewContent)) : p \in FilePaths}
        \cup {Result(Nil, Nil)}
DeletedChanges == {Result(SourceFile(p, DiskContent), Nil) : p \in FilePaths}
MovedChanges ==
    {Result(SourceFile(p, DiskContent), SourceFile(q, c)) :
        p \in FilePaths, q \in FilePaths, c \in Contents} \ 
    {Result(SourceFile(p, DiskContent), SourceFile(p, c)) :
        p \in FilePaths, c \in Contents}
RefactoredChanges ==
    {Result(SourceFile(p, DiskContent), SourceFile(p, NewContent)) :
        p \in FilePaths}

\* ResultsContainer.IsNotEmpty (rewriter.go 426-429)
IsNotEmpty(rc) ==
    Len(rc.Generated) > 0 \/ Len(rc.Deleted) > 0
        \/ Len(rc.Moved) > 0 \/ Len(rc.RefactoredInPlace) > 0

\* &ResultsContainer{ProjectRoot: r.BaseDir} (rewriter.go 329-331)
EmptyContainer ==
    [Generated |-> <<>>, Deleted |-> <<>>, Moved |-> <<>>,
     RefactoredInPlace |-> <<>>, ProjectRoot |-> "", FirstException |-> <<>>]

\* a project tree: every directory of an existing file exists
TreeDirs(fs) ==
    {<<>>} \cup UNION {Ancestors(Dir(p)) : p \in {q \in FilePaths : fs[q] # Absent}}

ProcessIdle ==
    /\ sourceFiles = <<>>
    /\ recipe = "none"
    /\ container = EmptyContainer
    /\ processed = <<>>
    /\ ppc = "idle"

\* the Config fields FindSourceFiles and the Runner read, in a zero Config:
\* Exclusions and PlainTextMasks stand for what GetExclusions and
\* GetPlainTextMasks return
ZeroConfig ==
    [Skip |-> FALSE, SizeThresholdMb |-> 0, Exclusions |-> <<>>,
     PlainTextMasks |-> <<>>]

\* FindSourceFiles before filepath.Walk is called
WalkIdle ==
    [entries |-> <<>>, pos |-> 1, sourceFiles |-> <<>>, err |-> NoErr,
     pc |-> "idle"]

\* a Runner on which neither Execute nor DryRun has been called
RunnerIdle ==
    [mode |-> "none", pc |-> "idle", err |-> NoErr, log |-> <<>>,
     baseDir |-> "abs", env |-> FALSE]

\* reportAndApplyResults has not been called
ReportIdle ==
    [results |-> [Generated |-> <<>>, Deleted |-> <<>>, Moved |-> <<>>,
                  RefactoredInPlace |-> <<>>],
     totalTimeSaved |-> 0,
     text |-> [unit |-> "none", whole |-> 0, tenth |-> 0],
     pc |-> "idle"]

\* no Execute, DryRun or FindSourceFiles is under way
RunIdle ==
    /\ config = ZeroConfig
    /\ walk = WalkIdle
    /\ runner = RunnerIdle
    /\ report = ReportIdle

MatchIdle ==
    /\ mPath = <<>>
    /\ mPatterns = <<>>
    /\ mResult = FALSE
    /\ mpc = "idle"

\* applyChanges is entered (from reportAndApplyResults, runner.go 132) with a
\* non-empty container, on some project tree
InitApply ==
    /\ files \in [FilePaths -> {Absent, DiskContent}]
    /\ dirs = TreeDirs(files)
    /\ buildRoot \in {"abs", "dot"}
    /\ \E g \in 0..MaxChanges :
       \E d \in 0..(MaxChanges - g) :
       \E m \in 0..(MaxChanges - g - d) :
       \E r \in 0..(MaxChanges - g - d - m) :
          /\ results \in [Generated : SeqsOfLen(GeneratedChanges, g),
                          Deleted : SeqsOfLen(DeletedChanges, d),
                          Moved : SeqsOfLen(MovedChanges, m),
                          RefactoredInPlace : SeqsOfLen(RefactoredChanges, r)]
    /\ IsNotEmpty(results)
    /\ pc = BucketFrom(results, 1)
    /\ idx = 1
    /\ sortedDirs = <<>>
    /\ removedDirs = <<>>
    /\ err = NoErr
    /\ applied = <<>>
    /\ run = 1
    /\ files0 = files
    /\ dirs0 = dirs
    /\ pruned = {}
    /\ rmdirFailed = FALSE
    /\ logged = <<>>
    /\ ProcessIdle
    /\ MatchIdle
    /\ RunIdle

NextApply ==
    \/ ApplyGenerated
    \/ ApplyDeleted
    \/ ApplyMoved
    \/ MovedFallbackWrite
    \/ MovedFallbackRemove
    \/ ApplyRefactored
    \/ Cleanup
    \/ Prune

Spec == InitApply /\ [][NextApply]_vars

\* applyChanges is called again, with the same container, on the tree the
\* first call left
Rerun ==
    /\ pc = "done"
    /\ err = NoErr
    /\ run = 1
    /\ run' = 2
    /\ files0' = files
    /\ dirs0' = dirs
    /\ pc' = BucketFrom(results, 1)
    /\ idx' = 1
    /\ sortedDirs' = <<>>
    /\ removedDirs' = <<>>
    /\ applied' = <<>>
    /\ UNCHANGED <<files, dirs, buildRoot, results, err, pruned, rmdirFailed>>
    /\ UNCHANGED <<logged, processVars, matchVars, runVars>>

SpecRerun == InitApply /\ [][NextApply \/ Rerun]_vars

-----------------------------------------------------------------------------
(* Properties of applyChanges *)

\* the container holds one change, a move, and nothing else
OnlyOneMove ==
    /\ Len(results.Moved) = 1
    /\ Len(results.Generated) = 0
    /\ Len(results.Deleted) = 0
    /\ Len(results.RefactoredInPlace) = 0

\* C1: applying a Moved change P -> Q, P on disk, ends with Q holding the
\* change's after-content and P gone, whatever the two contents are.
C1_MovedEndsWithAfterContent ==
    (/\ pc = "done" /\ err = NoErr /\ run = 1
     /\ OnlyOneMove
     /\ files0[results.Moved[1].Before.Path] # Absent)
    => /\ files[results.Moved[1].After.Path] = results.Moved[1].After.Content
       /\ files[results.Moved[1].Before.Path] = Absent

\* what the write-then-delete fallback of a move leaves on disk
FallbackFiles(fs, result) ==
    RemoveFile(WriteFile(fs, result.After.Path, result.After.Content),
               result.Before.Path)

\* the step of ApplyMoved in which os.Rename succeeded
RenameSucceeded ==
    /\ pc = "Moved"
    /\ pc' # "FallbackWrite"
    /\ err' = NoErr
    /\ results.Moved[idx].Before # Nil
    /\ results.Moved[idx].After # Nil

\* C2: for every Moved change, the disk after a successful rename is the
\* disk the fallback (write the after-content, delete the old file) leaves.
C2_RenameEqualsFallback ==
    [][RenameSucceeded
         => /\ files' = FallbackFiles(files, results.Moved[idx])
            /\ dirs' = MkdirAll(dirs, Dir(results.Moved[idx].After.Path))]_vars

\* C5: a second applyChanges of the same container on the tree of a first
\* successful one returns no error and leaves files and directories as the
\* first run left them.  Stated for the runs in which the system refuses no
\* call of the second run and no removal of an empty directory.
C5_SecondApplyChangesNothing ==
    (run = 2 /\ pc = "done" /\ err = NoErr /\ ~rmdirFailed)
    => (files = files0 /\ dirs = dirs0)

\* C6: a directory is removed by the pruner only if it has no entry, file
\* or sub-directory, at the moment it is evaluated; pruning removes no file.
C6_PrunedOnlyWhenEmpty ==
    \A e \in pruned : e.entries = {} /\ e.lost = {}

C6_Witness ==
    /\ pc = "done" /\ err = NoErr
    /\ Len(removedDirs) > 0
    /\ \E i \in DOMAIN sortedDirs :
          /\ sortedDirs[i] \in dirs
          /\ Entries(files, dirs, sortedDirs[i]) # {}

\* d is the parent directory of the before-path of a Deleted or Moved entry
IsParentOfRemovedPath(d) ==
    \/ \E i \in DOMAIN results.Deleted :
          /\ results.Deleted[i].Before # Nil
          /\ Dir(results.Deleted[i].Before.Path) = d
    \/ \E i \in DOMAIN results.Moved :
          /\ results.Moved[i].Before # Nil
          /\ Dir(results.Moved[i].Before.Path) = d

\* the directories the changes applied so far had MkdirAll make sure exist
MadeDirs ==
    UNION {Ancestors(Dir(results[applied[i][1]][applied[i][2]].After.Path)) :
             i \in {j \in DOMAIN applied :
                      results[applied[j][1]][applied[j][2]].After # Nil}}

\* C7: the pruner removes only parent directories of before-paths of the
\* Deleted and Moved buckets; every other directory that exists stays, an
\* ancestor emptied by the pruning of its child included.
C7_PrunesOnlyDirectParents ==
    /\ \A i \in DOMAIN removedDirs : IsParentOfRemovedPath(removedDirs[i])
    /\ \A d \in dirs0 \cup MadeDirs :
          ~IsParentOfRemovedPath(d) => d \in dirs

\* a/b/f deleted: a/b is removed and a, now empty, is left
C7_Witness ==
    /\ pc = "done" /\ err = NoErr
    /\ \E i \in DOMAIN results.Deleted :
          results.Deleted[i].Before.Path = <<"a", "b", "f">>
    /\ \E i \in DOMAIN removedDirs : removedDirs[i] = <<"a", "b">>
    /\ ~IsParentOfRemovedPath(<<"a">>)
    /\ <<"a">> \in dirs
    /\ Entries(files, dirs, <<"a">>) = {}

\* the entries of bucket b in loop order
EntriesOf(b) == [i \in 1..Len(results[b]) |-> <<b, i>>]

\* every change of the container: Created, Deleted, Moved, EditedInPlace
FullOrder ==
    EntriesOf("Generated") \o EntriesOf("Deleted") \o EntriesOf("Moved")
        \o EntriesOf("RefactoredInPlace")

\* C10: the changes are applied in the order Created, Deleted, Moved,
\* EditedInPlace, each bucket wholly before the next, and pruning starts
\* only once every change of the four buckets has been applied.
C10_BucketsInOrderThenPrune ==
    /\ Len(applied) <= Len(FullOrder)
    /\ applied = SubSeq(FullOrder, 1, Len(applied))
    /\ (pc \in {"cleanup", "prune"} \/ Len(removedDirs) > 0
          \/ (pc = "done" /\ err = NoErr))
         => applied = FullOrder

C10_Witness ==
    /\ pc = "prune"
    /\ Len(applied) = 2
    /\ applied[1][1] = "Deleted"
    /\ applied[2][1] = "Moved"

DeleteOfMissing ==
    /\ pc = "Deleted"
    /\ results.Deleted[idx].Before # Nil
    /\ files[results.Deleted[idx].Before.Path] = Absent

\* C12: a Deleted change whose before-path is not on disk is applied without
\* error and without touching the disk, and applyChanges goes on with the
\* next change: every change of the container is applied before a call that
\* returns no error is over.
C12_DeleteOfMissingIsNoError ==
    /\ [][DeleteOfMissing
            => /\ err' = NoErr
               /\ files' = files
               /\ dirs' = dirs
               /\ applied' = Append(applied, <<"Deleted", idx>>)
               /\ pc' \in {"Deleted", "Moved", "RefactoredInPlace",
                           "cleanup"}]_vars
    /\ []((pc = "done" /\ err = NoErr) => applied = FullOrder)

\* the first change deleted a missing file, the second then changed the disk
C12_Witness ==
    /\ pc = "done"
    /\ err = NoErr
    /\ Len(results.Generated) = 0
    /\ Len(results.Deleted) = 1
    /\ results.Deleted[1].Before # Nil
    /\ files0[results.Deleted[1].Before.Path] = Absent
    /\ Len(applied) = 2
    /\ files # files0

\* the step of ApplyGenerated in which writeFile returned no error
GeneratedWritten ==
    /\ pc = "Generated"
    /\ results.Generated[idx].After # Nil
    /\ err' = NoErr

\* C13: a Created change with after-path p and content c leaves a file at p
\* holding exactly c, with every ancestor directory of p existing, whether
\* or not the directories or a file at p were there before; no other file
\* is touched.
C13_CreatedWritesFile ==
    [][GeneratedWritten
         => LET sf == results.Generated[idx].After
            IN  /\ files'[sf.Path] = sf.Content
                /\ Ancestors(Dir(sf.Path)) \subseteq dirs'
                /\ dirs \subseteq dirs'
                /\ \A q \in FilePaths \ {sf.Path} : files'[q] = files[q]]_vars

\* one Created change overwrote a file, another made its parent directory
C13_Witness ==
    /\ pc = "done"
    /\ err = NoErr
    /\ Len(results.Generated) = 2
    /\ results.Generated[1].After # Nil
    /\ results.Generated[2].After # Nil
    /\ files0[results.Generated[1].After.Path] = DiskContent
    /\ files[results.Generated[1].After.Path] = NewContent
    /\ Dir(results.Generated[2].After.Path) \notin dirs0
    /\ Dir(results.Generated[2].After.Path) \in dirs
    /\ files[results.Generated[2].After.Path] = NewContent

\* C17: a candidate that cannot be read, cannot be removed or is no longer
\* there never makes the pruning pass fail: the pass goes on to the last
\* candidate, and applyChanges returns no error once the four buckets were
\* applied without one.
C17_PruneFailureNotPropagated ==
    /\ pc \in {"cleanup", "prune"} => err = NoErr
    /\ (pc = "done" /\ applied = FullOrder)
         => /\ err = NoErr
            /\ {sortedDirs[i] : i \in DOMAIN sortedDirs}
                 = CandidateDirs(results)
            /\ sortedDirs # <<>> => idx = Len(sortedDirs) + 1

\* the removal of the first candidate, an empty directory, failed; the
\* second candidate was evaluated all the same and no error was returned
C17_Witness ==
    /\ pc = "done"
    /\ err = NoErr
    /\ rmdirFailed
    /\ Len(sortedDirs) = 2
    /\ idx = 3
    /\ sortedDirs[1] \in dirs
    /\ Entries(files, dirs, sortedDirs[1]) = {}

\* directory a is a proper ancestor of directory d
IsAncestor(a, d) == Len(a) < Len(d) /\ SubSeq(d, 1, Len(a)) = a

\* the candidates are evaluated without repetition, deepest first
DedupedDeepestFirst ==
    \A i, j \in DOMAIN sortedDirs :
       i < j => /\ sortedDirs[i] # sortedDirs[j]
                /\ Depth(buildRoot, sortedDirs[i])
                     >= Depth(buildRoot, sortedDirs[j])

\* the build root, when its separator count is that of its children
TiedRoot(d) == d = <<>> /\ buildRoot = "dot"

\* the candidate parents, still on disk after a pass in which no removal
\* was refused, of candidate children the pass removed
ParentsLeft ==
    IF pc = "done" /\ err = NoErr /\ ~rmdirFailed
    THEN {Dir(removedDirs[i]) :
            i \in {j \in DOMAIN removedDirs : Len(removedDirs[j]) > 0}}
           \cap CandidateDirs(results) \cap dirs
    ELSE {}

C20_FallbackIsLogged ==
    pc \in {"FallbackWrite", "FallbackRemove"}
    => (logged # <<>> \/ err # NoErr)

\* applyChanges is about to overwrite a file that is on disk
RefactoredOnDisk ==
    /\ pc = "RefactoredInPlace"
    /\ results.RefactoredInPlace[idx].After # Nil
    /\ files[results.RefactoredInPlace[idx].After.Path] # Absent

\* C21: an EditedInPlace change on a file that is on disk leaves that file
\* holding exactly the after-content when the write succeeds, and in every
\* case leaves every other file and every directory as they were.
C21_EditedInPlaceOverwrites ==
    [][RefactoredOnDisk
         => LET sf == results.RefactoredInPlace[idx].After
            IN  /\ err' = NoErr => files'[sf.Path] = sf.Content
                /\ err' # NoErr => files'[sf.Path] = files[sf.Path]
                /\ \A q \in FilePaths \ {sf.Path} : files'[q] = files[q]
                /\ dirs' = dirs]_vars

\* the single change overwrote a/f, next to two files that stayed
C21_Witness ==
    /\ pc = "done"
    /\ err = NoErr
    /\ applied = <<<<"RefactoredInPlace", 1>>>>
    /\ results.RefactoredInPlace[1].After.Path = <<"a", "f">>
    /\ files0 = [p \in FilePaths |-> DiskContent]
    /\ files = [files0 EXCEPT ![<<"a", "f">>] = NewContent]
    /\ dirs = dirs0

\* applyChanges is at a Moved change, in the rename or in its fallback, and
\* the file is at the before-path or at the after-path
MovingOnDisk ==
    /\ pc \in {"Moved", "FallbackWrite", "FallbackRemove"}
    /\ results.Moved[idx].Before # Nil
    /\ results.Moved[idx].After # Nil
    /\ \/ files[results.Moved[idx].Before.Path] # Absent
       \/ files[results.Moved[idx].After.Path] # Absent

\* C23: while a Moved change whose before-path exists is applied, no step
\* leaves the file absent from both paths: the before-path is deleted only
\* after the after-path was written, and a failed write leaves it in place.
C23_NeverAbsentFromBoth ==
    [][MovingOnDisk
         => LET old == results.Moved[idx].Before.Path
                new == results.Moved[idx].After.Path
            IN  /\ files'[old] # Absent \/ files'[new] # Absent
                /\ (pc = "FallbackWrite" /\ err' # NoErr)
                     => files'[old] = files[old]
                /\ (pc # "Moved" /\ files[old] # Absent
                      /\ files'[old] = Absent)
                     => /\ pc = "FallbackRemove"
                        /\ files[new] = results.Moved[idx].After.Content]_vars

\* in the fallback, after the write and before the delete: the file is at
\* both paths, the after-path having been empty before
C23_Witness ==
    /\ pc = "FallbackRemove"
    /\ files[results.Moved[idx].Before.Path] # Absent
    /\ files[results.Moved[idx].After.Path] # Absent
    /\ files0[results.Moved[idx].After.Path] = Absent

\* C24: the pruning pass never removes the build root: the root directory
\* handed to applyChanges exists after any apply.
C24_RootNeverRemoved == <<>> \in dirs

-----------------------------------------------------------------------------
(* Rewriter.ProcessFiles and Rewriter.processFile *)

\* processFile returned (nil, nil): no change
NoResult == [none |-> TRUE]

\* filepath.Walk visits the tree in lexical order
WalkOrder == <<<<"a", "b", "f">>, <<"a", "f">>, <<"f">>>>

\* Rewriter.applyRecipes.  A recipe gives, for every file, the path and the
\* content of the after-snapshot.  The placeholder of the source is Noop:
\* the same path and the same content for every file; the other recipes
\* stand for the recipe application the source leaves to be filled in.
Recipes ==
    [FilePaths -> [Path : FilePaths, Edit : BOOLEAN]]
Noop == [p \in FilePaths |-> [Path |-> p, Edit |-> FALSE]]
applyRecipes(rcp, sourceFile) ==
    SourceFile(rcp[sourceFile.Path].Path,
               IF rcp[sourceFile.Path].Edit THEN NewContent
               ELSE sourceFile.Content)

\* rewriter.go 383-392: no result when the content is unchanged
processFileKeepsAll(before, after) == Result(before, after)
processFileResult(before, after) ==
    IF before.Content = after.Content THEN NoResult
    ELSE Result(before, after)

\* rewriter.go 344-351: the bucket ProcessFiles files a result in, "none"
\* when no branch of the chain takes it
Bucket(result) ==
    IF result.Before = Nil THEN "Generated"
    ELSE IF result.After = Nil THEN "Deleted"
    ELSE IF result.Before.Path # result.After.Path THEN "Moved"
    ELSE IF result.Before.Content # result.After.Content
         THEN "RefactoredInPlace"
    ELSE "none"

\* rewriter.go 342-353: append the result to its bucket
Categorize(rc, result) ==
    IF result = NoResult \/ Bucket(result) = "none" THEN rc
    ELSE [rc EXCEPT ![Bucket(result)] = Append(@, result)]

\* rewriter.go 335-339: the error of processFile is kept when it is the
\* first one
RecordLastException(rc, filePath) ==
    [rc EXCEPT !.FirstException = filePath]
RecordException(rc, filePath) ==
    IF rc.FirstException = <<>>
    THEN [rc EXCEPT !.FirstException = filePath]
    ELSE rc

\* rewriter.go 333-354, one file of the loop.  os.ReadFile fails for a
\* file that is gone, and may fail for one that is there.  The paths the
\* walk of the absolute build root found are absolute, so filepath.Rel
\* (rewriter.go 367-370) fails for each of them when BaseDir is relative.
\* FirstException is <<>> while nil, and names the file whose processing
\* failed.
ProcessFile ==
    /\ ppc = "process"
    /\ sourceFiles # <<>>
    /\ LET filePath == Head(sourceFiles)
       IN  \/ /\ files[filePath] # Absent
              /\ container.ProjectRoot # "dot"
              /\ LET before == SourceFile(filePath, files[filePath])
                     after == applyRecipes(recipe, before)
                     result == processFileResult(before, after)
                 IN  /\ container' = Categorize(container, result)
                     /\ processed' =
                          Append(processed,
                                 [file |-> filePath, before |-> before,
                                  after |-> after, result |-> result,
                                  failed |-> FALSE, read |-> TRUE])
           \/ \E read \in {r \in BOOLEAN :
                             r => /\ files[filePath] # Absent
                                  /\ container.ProjectRoot = "dot"} :
                /\ container' = RecordException(container, filePath)
                /\ processed' =
                     Append(processed,
                            [file |-> filePath, before |-> Nil,
                             after |-> Nil, result |-> NoResult,
                             failed |-> TRUE, read |-> read])
    /\ sourceFiles' = Tail(sourceFiles)
    /\ ppc' = IF Len(sourceFiles) = 1 THEN "done" ELSE "process"
    /\ UNCHANGED recipe
    /\ UNCHANGED <<applyVars, matchVars, runVars>>

ApplyIdle ==
    /\ dirs = TreeDirs(files)
    /\ buildRoot = "abs"
    /\ results = EmptyContainer
    /\ pc = "idle"
    /\ idx = 1
    /\ sortedDirs = <<>>
    /\ removedDirs = <<>>
    /\ err = NoErr
    /\ applied = <<>>
    /\ run = 1
    /\ files0 = files
    /\ dirs0 = dirs
    /\ pruned = {}
    /\ rmdirFailed = FALSE
    /\ logged = <<>>

\* ProcessFiles is entered with the files discovery found in the tree
InitProcess ==
    /\ files \in [FilePaths -> {Absent, DiskContent}]
    /\ ApplyIdle
    /\ \E found \in SUBSET {p \in FilePaths : files[p] # Absent} :
          /\ found # {}
          /\ sourceFiles = SelectSeq(WalkOrder, LAMBDA p : p \in found)
    /\ recipe \in Recipes
    /\ \E baseDir \in {"abs", "dot"} :
          container = [EmptyContainer EXCEPT !.ProjectRoot = baseDir]
    /\ processed = <<>>
    /\ ppc = "process"
    /\ MatchIdle
    /\ RunIdle

SpecProcess == InitProcess /\ [][ProcessFile]_vars

\* the four buckets
BucketNames == {"Generated", "Deleted", "Moved", "RefactoredInPlace"}

\* the number of times result r is filed in bucket b of the container
Filed(b, r) == Cardinality({i \in DOMAIN container[b] : container[b][i] = r})

\* the bucket the four-way rule gives a pair of snapshots
RuleBucket(before, after) ==
    IF before = Nil THEN "Generated"
    ELSE IF after = Nil THEN "Deleted"
    ELSE IF before.Path # after.Path THEN "Moved"
    ELSE "RefactoredInPlace"

Identical(before, after) ==
    before.Path = after.Path /\ before.Content = after.Content

\* C3: every change, that is every pair that is not identical in path and
\* content, is filed in exactly one bucket, the one the four-way rule
\* gives; a pair with different paths is Moved whether or not the contents
\* are equal.
C3_FourWayRule ==
    \A i \in DOMAIN processed :
       (~processed[i].failed
          /\ ~Identical(processed[i].before, processed[i].after))
       => \A b \in BucketNames :
             Filed(b, Result(processed[i].before, processed[i].after))
               = IF b = RuleBucket(processed[i].before, processed[i].after)
                 THEN 1 ELSE 0

\* C4: a pair identical in path and content is no change, and no bucket
\* ever holds an entry whose before and after are identical.
C4_NoChangeNeverFiled ==
    /\ \A i \in DOMAIN processed :
          (~processed[i].failed
             /\ Identical(processed[i].before, processed[i].after))
          => processed[i].result = NoResult
    /\ \A b \in BucketNames :
          \A i \in DOMAIN container[b] :
             ~(/\ container[b][i].Before # Nil
               /\ container[b][i].After # Nil
               /\ Identical(container[b][i].Before, container[b][i].After))

C4_Witness ==
    /\ ppc = "done"
    /\ \E i, j \in DOMAIN processed :
          /\ ~processed[i].failed
          /\ Identical(processed[i].before, processed[i].after)
          /\ ~processed[j].failed
          /\ Filed("RefactoredInPlace", processed[j].result) = 1

\* the files whose processing has failed, as indexes of processed
FailedAt == {i \in DOMAIN processed : processed[i].failed}

\* C14: a file that fails does not end ProcessFiles: the loop goes on while
\* files are left, every file that did not fail is filed in the bucket the
\* classifier gives it, and FirstException is the failure of the first file
\* that failed, whatever fails later.
C14_FirstFailureKept ==
    /\ sourceFiles # <<>> => ppc = "process"
    /\ ppc = "done" => sourceFiles = <<>>
    /\ \A i \in DOMAIN processed :
          (~processed[i].failed /\ processed[i].result # NoResult)
          => \A b \in BucketNames :
                Filed(b, processed[i].result)
                  = IF b = Bucket(processed[i].result) THEN 1 ELSE 0
    /\ container.FirstException =
         IF FailedAt = {} THEN <<>>
         ELSE processed[CHOOSE i \in FailedAt :
                           \A j \in FailedAt : i <= j].file

\* two files failed, one after the other, and the third was filed
C14_Witness ==
    /\ ppc = "done"
    /\ Len(processed) = 3
    /\ processed[1].failed
    /\ processed[2].failed
    /\ ~processed[3].failed
    /\ Filed("Moved", processed[3].result) = 1
    /\ container.FirstException = processed[1].file

-----------------------------------------------------------------------------
(* Rewriter.matchesPatterns *)

\* the characters of the modelled patterns and paths; "[" and "\" are not
\* among them, so every pattern is well formed
PatternChars == {"a", "/", "*", "?"}
PathChars == {"a", "b", "/"}

\* the longest pattern and the longest path drawn from these characters
MaxPatternLen == 4
MaxPathLen == 3

\* the exclusion pattern of the README and the two paths of its example
TargetPattern ==
    <<"*", "*", "/", "t", "a", "r", "g", "e", "t", "/", "*", "*">>
TargetClassPath ==
    <<"f", "o", "o", "/", "t", "a", "r", "g", "e", "t", "/", "c", "l",
      "a", "s", "s", "e", "s", "/", "x", ".", "c", "l", "a", "s", "s">>
TargetxClassPath ==
    <<"f", "o", "o", "/", "t", "a", "r", "g", "e", "t", "x", "/", "x",
      ".", "c", "l", "a", "s", "s">>

\* filepath.Match for patterns of literals, "?" and "*": "*" is any run of
\* characters other than the separator, "?" one such character, and the
\* pattern must take the whole name; consecutive "*" act as one
RECURSIVE Match(_, _)
Match(pattern, name) ==
    IF pattern = <<>> THEN name = <<>>
    ELSE IF Head(pattern) = "*"
         THEN \/ Match(Tail(pattern), name)
              \/ /\ name # <<>>
                 /\ Head(name) # "/"
                 /\ Match(pattern, Tail(name))
    ELSE IF Head(pattern) = "?"
         THEN /\ name # <<>>
              /\ Head(name) # "/"
              /\ Match(Tail(pattern), Tail(name))
    ELSE /\ name # <<>>
         /\ Head(name) = Head(pattern)
         /\ Match(Tail(pattern), Tail(name))

\* strings.Split(pattern, "**"): the pieces between the occurrences of
\* "**", found left to right without overlap
RECURSIVE SplitFrom(_, _)
SplitFrom(rest, piece) ==
    IF rest = <<>> THEN <<piece>>
    ELSE IF Len(rest) >= 2 /\ rest[1] = "*" /\ rest[2] = "*"
         THEN <<piece>> \o SplitFrom(SubSeq(rest, 3, Len(rest)), <<>>)
    ELSE SplitFrom(Tail(rest), Append(piece, Head(rest)))

Split(pattern) == SplitFrom(pattern, <<>>)

\* strings.Contains(pattern, "**")
ContainsDoubleStar(pattern) == Len(Split(pattern)) > 1

\* strings.HasPrefix and strings.HasSuffix
HasPrefix(str, prefix) ==
    Len(prefix) <= Len(str) /\ SubSeq(str, 1, Len(prefix)) = prefix
HasSuffix(str, suffix) ==
    /\ Len(suffix) <= Len(str)
    /\ SubSeq(str, Len(str) - Len(suffix) + 1, Len(str)) = suffix

\* rewriter.go 286-296: the handling of "**"
DoubleStarPrefixOnly(pattern, path) ==
    /\ ContainsDoubleStar(pattern)
    /\ Len(Split(pattern)) = 2
    /\ HasPrefix(path, Split(pattern)[1])
DoubleStarMatch(pattern, path) ==
    /\ ContainsDoubleStar(pattern)
    /\ Len(Split(pattern)) = 2
    /\ HasPrefix(path, Split(pattern)[1])
    /\ HasSuffix(path, Split(pattern)[2])

\* rewriter.go 278-299: true when filepath.Match or the "**" rule accepts
\* the path for one of the patterns
matchesPatterns(path, patterns) ==
    \E i \in DOMAIN patterns :
       Match(patterns[i], path) \/ DoubleStarMatch(patterns[i], path)

StringsUpTo(chars, n) == UNION {[1..k -> chars] : k \in 0..n}

\* matchesPatterns is called with one pattern, or with a list whose first
\* pattern is the literal "b"
InitMatch ==
    /\ files = [p \in FilePaths |-> Absent]
    /\ ApplyIdle
    /\ ProcessIdle
    /\ \/ /\ mPath \in StringsUpTo(PathChars, MaxPathLen)
          /\ \E pattern \in StringsUpTo(PatternChars, MaxPatternLen) :
                mPatterns \in {<<pattern>>, <<<<"b">>, pattern>>}
       \/ /\ mPath \in {TargetClassPath, TargetxClassPath}
          /\ mPatterns = <<TargetPattern>>
    /\ mResult = FALSE
    /\ mpc = "call"
    /\ RunIdle

MatchCall ==
    /\ mpc = "call"
    /\ mResult' = matchesPatterns(mPath, mPatterns)
    /\ mpc' = "done"
    /\ UNCHANGED <<mPath, mPatterns>>
    /\ UNCHANGED <<applyVars, processVars, runVars>>

SpecMatch == InitMatch /\ [][MatchCall]_vars

\* C8: with the single pattern **/target/**, the matcher accepts
\* foo/target/classes/x.class and rejects foo/targetx/x.class.
C8_TargetPattern ==
    (mpc = "done" /\ mPatterns = <<TargetPattern>>)
    => /\ mPath = TargetClassPath => mResult = TRUE
       /\ mPath = TargetxClassPath => mResult = FALSE

\* the pattern holds "**" exactly once: Split gives a prefix and a suffix,
\* and the two asterisks are not part of a longer run
OneDoubleStar(pattern) ==
    /\ Len(Split(pattern)) = 2
    /\ ~HasSuffix(Split(pattern)[1], <<"*">>)
    /\ ~HasPrefix(Split(pattern)[2], <<"*">>)

\* C9: for a pattern with exactly one "**" the matcher accepts a path if
\* and only if the path starts with the text before the "**" and ends with
\* the text after it, both taken literally.
C9_PrefixSuffixOnly ==
    (mpc = "done" /\ Len(mPatterns) = 1 /\ OneDoubleStar(mPatterns[1]))
    => mResult = (/\ HasPrefix(mPath, Split(mPatterns[1])[1])
                  /\ HasSuffix(mPath, Split(mPatterns[1])[2]))

\* no "*" and no "?" in the text
Literal(str) == \A i \in DOMAIN str : str[i] \notin {"*", "?"}

\* C9 as amended: the equivalence holds for the patterns whose prefix and
\* suffix hold no wildcard.
C9_LiteralPrefixSuffix ==
    (/\ mpc = "done" /\ Len(mPatterns) = 1 /\ OneDoubleStar(mPatterns[1])
     /\ Literal(Split(mPatterns[1])[1])
     /\ Literal(Split(mPatterns[1])[2]))
    => mResult = (/\ HasPrefix(mPath, Split(mPatterns[1])[1])
                  /\ HasSuffix(mPath, Split(mPatterns[1])[2]))

\* a**a accepts a/a, which filepath.Match rejects
C9_Witness ==
    /\ mpc = "done"
    /\ mPatterns = <<<<"a", "*", "*", "a">>>>
    /\ mPath = <<"a", "/", "a">>
    /\ mResult = TRUE
    /\ ~Match(mPatterns[1], mPath)

-----------------------------------------------------------------------------
(* Rewriter.FindSourceFiles and Rewriter.isSourceFile *)

\* the default of Config.SizeThresholdMb, and the bytes of a megabyte
DefaultSizeThresholdMb == 10
BytesPerMb == 1024 * 1024

\* the root handed to filepath.Walk, and the entries of the modelled tree
RootDir == <<"/", "p">>
AGoPath == <<"/", "p", "/", "a", ".", "g", "o">>
BPath == <<"/", "p", "/", "b">>
DGoPath == <<"/", "p", "/", "d", ".", "g", "o">>
CGOPath == <<"/", "p", "/", "d", ".", "g", "o", "/", "c", ".", "G", "O">>

\* the sizes of a file: empty, at the default threshold, one byte above it
FileSizes ==
    {0, DefaultSizeThresholdMb * BytesPerMb,
     DefaultSizeThresholdMb * BytesPerMb + 1}

\* what filepath.Walk hands the callback: the path and the os.FileInfo that
\* Lstat gave, a regular file, a directory or a symbolic link
Entry(p, k, n) == [path |-> p, kind |-> k, size |-> n]
EntriesAt(p, kinds) == {Entry(p, k, n) : k \in kinds, n \in FileSizes}
Optional(S) == {<<>>} \cup {<<e>> : e \in S}

\* the trees under RootDir, each in the lexical order of the walk
Trees ==
    {<<Entry(RootDir, "dir", 0)>> \o x \o y \o z :
        x \in Optional(EntriesAt(AGoPath, {"file", "symlink"})),
        y \in Optional(EntriesAt(BPath, {"file"})),
        z \in {<<>>} \cup
              {<<Entry(DGoPath, "dir", 0)>> \o c :
                  c \in Optional(EntriesAt(CGOPath, {"file"}))}}

\* the exclusion patterns and the plain-text masks a Config may hold
ExclusionChoices ==
    {<<>>, <<<<"*", ".", "g", "o">>>>, <<<<"d", ".", "g", "o", "/", "*", "*">>>>}
MaskChoices ==
    {<<<<"*", "*", "/", "b">>>>, <<<<"b">>>>, <<<<"*", "*">>>>}

\* filepath.Rel(rootDir, path) for a path under rootDir
Rel(rootDir, path) ==
    IF path = rootDir THEN <<".">>
    ELSE SubSeq(path, Len(rootDir) + 2, Len(path))

\* filepath.Ext: the suffix from the last dot of the last element, "" when
\* that element has no dot
RECURSIVE ExtFrom(_, _)
ExtFrom(path, i) ==
    IF i < 1 \/ path[i] = "/" THEN <<>>
    ELSE IF path[i] = "." THEN SubSeq(path, i, Len(path))
    ELSE ExtFrom(path, i - 1)
Ext(path) == ExtFrom(path, Len(path))

\* strings.ToLower on the letters A-Z
UpperLetters ==
    <<"A", "B", "C", "D", "E", "F", "G", "H", "I", "J", "K", "L", "M", "N", "O", "P", "Q", "R", "S", "T", "U", "V", "W", "X", "Y", "Z">>
LowerLetters ==
    <<"a", "b", "c", "d", "e", "f", "g", "h", "i", "j", "k", "l", "m", "n", "o", "p", "q", "r", "s", "t", "u", "v", "w", "x", "y", "z">>
ToLowerChar(c) ==
    IF \E i \in DOMAIN UpperLetters : UpperLetters[i] = c
    THEN LowerLetters[CHOOSE i \in DOMAIN UpperLetters : UpperLetters[i] = c]
    ELSE c
ToLower(s) == [i \in DOMAIN s |-> ToLowerChar(s[i])]

\* rewriter.go 304-312
sourceExtensions ==
    <<
      <<".", "j", "a", "v", "a">>,
      <<".", "k", "t">>,
      <<".", "g", "r", "o", "o", "v", "y">>,
      <<".", "s", "c", "a", "l", "a">>,
      <<".", "j", "s">>,
      <<".", "t", "s">>,
      <<".", "j", "s", "x">>,
      <<".", "t", "s", "x">>,
      <<".", "g", "o">>,
      <<".", "r", "s">>,
      <<".", "p", "y">>,
      <<".", "r", "b">>,
      <<".", "c">>,
      <<".", "c", "p", "p">>,
      <<".", "h">>,
      <<".", "h", "p", "p">>,
      <<".", "c", "s">>,
      <<".", "v", "b">>,
      <<".", "p", "h", "p">>,
      <<".", "x", "m", "l">>,
      <<".", "j", "s", "o", "n">>,
      <<".", "y", "a", "m", "l">>,
      <<".", "y", "m", "l">>,
      <<".", "p", "r", "o", "p", "e", "r", "t", "i", "e", "s">>,
      <<".", "t", "o", "m", "l">>,
      <<".", "h", "c", "l">>
    >>

\* Rewriter.isSourceFile
isSourceFile(path) ==
    LET ext == ToLower(Ext(path))
    IN  \E i \in DOMAIN sourceExtensions : ext = sourceExtensions[i]

\* rewriter.go 251-252: float64(size) / (1024 * 1024) > float64(threshold);
\* the division by a power of two is exact, so this is size > threshold MB
TooLarge(size, thresholdMb) == size > thresholdMb * BytesPerMb

\* rewriter.go 246-269, the callback on an entry Walk could stat: TRUE when
\* the path is appended to sourceFiles
SelectedMaskFirst(cfg, rootDir, entry) ==
    LET relPath == Rel(rootDir, entry.path)
    IN  /\ entry.kind # "dir"
        /\ ~TooLarge(entry.size, cfg.SizeThresholdMb)
        /\ \/ matchesPatterns(relPath, cfg.PlainTextMasks)
           \/ /\ ~matchesPatterns(relPath, cfg.Exclusions)
              /\ isSourceFile(relPath)
Selected(cfg, rootDir, entry) ==
    LET relPath == Rel(rootDir, entry.path)
    IN  /\ entry.kind # "dir"
        /\ ~TooLarge(entry.size, cfg.SizeThresholdMb)
        /\ ~matchesPatterns(relPath, cfg.Exclusions)
        /\ \/ matchesPatterns(relPath, cfg.PlainTextMasks)
           \/ isSourceFile(relPath)

\* the walk is over: FindSourceFiles returns sourceFiles and err
WalkOn(w) ==
    IF w.err # NoErr \/ w.pos > Len(w.entries)
    THEN [w EXCEPT !.pc = "returned"]
    ELSE w

\* rewriter.go 241-272, the callback called without error on the next entry
WalkVisit ==
    /\ walk.pc = "walk"
    /\ LET entry == walk.entries[walk.pos]
       IN  walk' = WalkOn([walk EXCEPT
                     !.sourceFiles =
                        IF Selected(config, RootDir, entry)
                        THEN Append(@, entry.path) ELSE @,
                     !.pos = @ + 1])
    /\ UNCHANGED <<config, runner, report>>
    /\ UNCHANGED <<applyVars, processVars, matchVars>>

\* rewriter.go 242-244 and 274: Walk could not stat the next entry or read
\* the directory it is, the callback returns the error, and FindSourceFiles
\* returns it with the sourceFiles gathered so far
WalkError ==
    /\ walk.pc = "walk"
    /\ walk' = WalkOn([walk EXCEPT !.err = "walk"])
    /\ UNCHANGED <<config, runner, report>>
    /\ UNCHANGED <<applyVars, processVars, matchVars>>

\* FindSourceFiles is called on some tree under some Config
InitDiscover ==
    /\ files = [p \in FilePaths |-> Absent]
    /\ ApplyIdle
    /\ ProcessIdle
    /\ MatchIdle
    /\ runner = RunnerIdle
    /\ report = ReportIdle
    /\ config \in [Skip : {FALSE},
                   SizeThresholdMb : {0, DefaultSizeThresholdMb},
                   Exclusions : ExclusionChoices,
                   PlainTextMasks : MaskChoices]
    /\ \E tree \in Trees :
          walk = [entries |-> tree, pos |-> 1, sourceFiles |-> <<>>,
                  err |-> NoErr, pc |-> "walk"]

SpecDiscover == InitDiscover /\ [][WalkVisit \/ WalkError]_vars

\* the paths FindSourceFiles returned
Returned == {walk.sourceFiles[i] : i \in DOMAIN walk.sourceFiles}

\* C18: when the walk hits a filesystem error, FindSourceFiles returns the
\* error and an empty path sequence.
C18_NoPartialList ==
    (walk.pc = "returned" /\ walk.err # NoErr) => walk.sourceFiles = <<>>

\* the recognized extensions, as a set
RecognizedExtensions == {sourceExtensions[i] : i \in DOMAIN sourceExtensions}

\* an entry passes the size, exclusion and mask-or-extension tests, the
\* extension being the one given
Passes(entry, ext) ==
    LET relPath == Rel(RootDir, entry.path)
    IN  /\ entry.size <= config.SizeThresholdMb * BytesPerMb
        /\ ~matchesPatterns(relPath, config.Exclusions)
        /\ \/ matchesPatterns(relPath, config.PlainTextMasks)
           \/ ext \in RecognizedExtensions

\* C19 as stated: a path is yielded if and only if it is a regular file
\* within the size threshold, matched by no exclusion pattern, and matched
\* by a plain-text pattern or carrying a recognized extension.
C19_YieldedIffRegularFile ==
    (walk.pc = "returned" /\ walk.err = NoErr)
    => \A i \in DOMAIN walk.entries :
          LET entry == walk.entries[i]
          IN  entry.path \in Returned
                <=> (entry.kind = "file"
                       /\ Passes(entry, Ext(Rel(RootDir, entry.path))))

\* C19, amended: a path is yielded if and only if it is not a directory
\* (a regular file, or a link or other entry that is not a directory), is
\* within the size threshold, is matched by no exclusion pattern, and is
\* matched by a plain-text pattern or carries, in any letter case, a
\* recognized extension; no other path is yielded, and none twice.
C19_YieldedIffNotDirectory ==
    /\ Returned \subseteq {walk.entries[i].path : i \in DOMAIN walk.entries}
    /\ \A i, j \in DOMAIN walk.sourceFiles :
          i # j => walk.sourceFiles[i] # walk.sourceFiles[j]
    /\ (walk.pc = "returned" /\ walk.err = NoErr)
       => \A i \in DOMAIN walk.entries :
             LET entry == walk.entries[i]
             IN  entry.path \in Returned
                   <=> (entry.kind # "dir"
                          /\ Passes(entry,
                                    ToLower(Ext(Rel(RootDir, entry.path)))))

\* b, which only the mask matches, was yielded; a.go, which the mask matches
\* too, was excluded; the directory d.go was not yielded, c.GO under it was
C19_Witness ==
    /\ walk.pc = "returned"
    /\ walk.err = NoErr
    /\ Len(walk.entries) = 5
    /\ config.Exclusions = <<<<"*", ".", "g", "o">>>>
    /\ config.PlainTextMasks = <<<<"*", "*">>>>
    /\ walk.sourceFiles = <<BPath, CGOPath>>

-----------------------------------------------------------------------------
(* Runner.Execute and Runner.DryRun *)

\* the method returns e, having logged the lines
Return(e, lines) ==
    [runner EXCEPT !.pc = "returned", !.err = e, !.log = @ \o lines]

\* runner.go 30-47 and 329-346: the Skip test, LoadEnvironment, GetBuildRoot
RunStartSkipInExecuteOnly ==
    /\ runner.pc = "start"
    /\ IF config.Skip /\ runner.mode = "Execute"
       THEN runner' = Return(NoErr, <<"Skipping">>)
       ELSE \/ \E e \in {"failed to load environment",
                         "failed to get build root"} :
                  runner' = Return(e, <<>>)
            \/ runner' = [runner EXCEPT !.pc = "discover", !.env = TRUE,
                                        !.log = Append(@, "Processing")]
    /\ UNCHANGED <<config, walk, report>>
    /\ UNCHANGED <<applyVars, processVars, matchVars>>
RunStart ==
    /\ runner.pc = "start"
    /\ IF config.Skip
       THEN runner' = Return(NoErr, <<"Skipping">>)
       ELSE \/ \E e \in {"failed to load environment",
                         "failed to get build root"} :
                  runner' = Return(e, <<>>)
            \/ runner' = [runner EXCEPT !.pc = "discover", !.env = TRUE,
                                        !.log = Append(@, "Processing")]
    /\ UNCHANGED <<config, walk, report>>
    /\ UNCHANGED <<applyVars, processVars, matchVars>>

\* runner.go 49-66 and 348-365: FindSourceFiles fails, finds nothing, or
\* finds files of the tree, on which ProcessFiles then starts
RunDiscover ==
    /\ runner.pc = "discover"
    /\ \/ /\ runner' = Return("failed to find source files", <<>>)
          /\ UNCHANGED <<sourceFiles, container, ppc>>
       \/ \E found \in SUBSET {p \in FilePaths : files[p] # Absent} :
             IF found = {}
             THEN /\ runner' = Return(NoErr, <<"Found", "No source files">>)
                  /\ UNCHANGED <<sourceFiles, container, ppc>>
             ELSE /\ runner' = [runner EXCEPT !.pc = "process",
                                              !.log = Append(@, "Found")]
                  /\ sourceFiles' =
                       SelectSeq(WalkOrder, LAMBDA p : p \in found)
                  /\ container' =
                       [EmptyContainer EXCEPT !.ProjectRoot = runner.baseDir]
                  /\ ppc' = "process"
    /\ UNCHANGED <<recipe, processed>>
    /\ UNCHANGED <<config, walk, report>>
    /\ UNCHANGED <<applyVars, matchVars>>

\* runner.go 74-75 against 373-374: only Execute goes on to
\* reportAndApplyResults, and so to applyChanges
ShouldApplyInAnyMode(mode, rc) == IsNotEmpty(rc)
ShouldApply(mode, rc) == mode = "Execute" /\ IsNotEmpty(rc)

\* runner.go 68-84 and 367-380: ProcessFiles has returned
RunProcessedApplyFirst ==
    /\ runner.pc = "process"
    /\ ppc = "done"
    /\ IF ShouldApply(runner.mode, container)
       THEN /\ runner' = [runner EXCEPT !.pc = "apply",
                                        !.log = Append(@, "Results")]
            /\ results' = container
            /\ pc' = BucketFrom(container, 1)
       ELSE IF container.FirstException # <<>>
       THEN /\ runner' = Return("FirstException", <<"ERROR">>)
            /\ UNCHANGED <<results, pc>>
       ELSE /\ runner' =
                 Return(NoErr,
                        IF IsNotEmpty(container)
                        THEN <<"The following changes would be made">>
                        ELSE <<"No changes">>)
            /\ UNCHANGED <<results, pc>>
    /\ UNCHANGED <<files, dirs, buildRoot, idx, sortedDirs, removedDirs, err,
                   applied, run, files0, dirs0, pruned, rmdirFailed, logged>>
    /\ UNCHANGED <<config, walk, report>>
    /\ UNCHANGED <<processVars, matchVars>>
RunProcessed ==
    /\ runner.pc = "process"
    /\ ppc = "done"
    /\ IF container.FirstException # <<>>
       THEN /\ runner' = Return("FirstException", <<"ERROR">>)
            /\ UNCHANGED <<results, pc>>
       ELSE IF ShouldApply(runner.mode, container)
       THEN /\ runner' = [runner EXCEPT !.pc = "apply",
                                        !.log = Append(@, "Results")]
            /\ results' = container
            /\ pc' = BucketFrom(container, 1)
       ELSE /\ runner' =
                 Return(NoErr,
                        IF IsNotEmpty(container)
                        THEN <<"The following changes would be made">>
                        ELSE <<"No changes">>)
            /\ UNCHANGED <<results, pc>>
    /\ UNCHANGED <<files, dirs, buildRoot, idx, sortedDirs, removedDirs, err,
                   applied, run, files0, dirs0, pruned, rmdirFailed, logged>>
    /\ UNCHANGED <<config, walk, report>>
    /\ UNCHANGED <<processVars, matchVars>>

\* runner.go 75-84: applyChanges has returned
RunApplied ==
    /\ runner.pc = "apply"
    /\ pc = "done"
    /\ runner' = Return(IF err # NoErr THEN "failed to apply results"
                        ELSE NoErr, <<>>)
    /\ UNCHANGED <<config, walk, report>>
    /\ UNCHANGED <<applyVars, processVars, matchVars>>

\* Execute or DryRun is called on some tree, with some recipe active
InitRun ==
    /\ files \in [FilePaths -> {Absent, DiskContent}]
    /\ ApplyIdle
    /\ sourceFiles = <<>>
    /\ recipe \in Recipes
    /\ container = EmptyContainer
    /\ processed = <<>>
    /\ ppc = "idle"
    /\ MatchIdle
    /\ config \in [Skip : BOOLEAN, SizeThresholdMb : {0},
                   Exclusions : {<<>>}, PlainTextMasks : {<<>>}]
    /\ walk = WalkIdle
    /\ report = ReportIdle
    /\ \E mode \in {"Execute", "DryRun"}, baseDir \in {"abs", "dot"} :
          runner = [mode |-> mode, pc |-> "start", err |-> NoErr,
                    log |-> <<>>, baseDir |-> baseDir, env |-> FALSE]

\* ProcessFiles files every result under Moved or RefactoredInPlace (the
\* before snapshot is read from disk, the after snapshot is never nil), so
\* the Generated and Deleted loops of applyChanges have nothing to walk
NextRun ==
    \/ RunStart
    \/ RunDiscover
    \/ ProcessFile
    \/ RunProcessed
    \/ ApplyMoved
    \/ MovedFallbackWrite
    \/ MovedFallbackRemove
    \/ ApplyRefactored
    \/ Cleanup
    \/ Prune
    \/ RunApplied

SpecRun == InitRun /\ [][NextRun]_vars

\* C15: DryRun never changes the disk: it never enters applyChanges or
\* cleanupEmptyDirectories, whatever the recipe would change.
C15_DryRunMutatesNothing ==
    runner.mode = "DryRun"
    => /\ files = files0
       /\ dirs = dirs0
       /\ pc = "idle"
       /\ applied = <<>>
       /\ sortedDirs = <<>>
       /\ removedDirs = <<>>
       /\ pruned = {}

\* a dry run has reported the changes of a non-empty container and returned
C15_Witness ==
    /\ runner.mode = "DryRun"
    /\ runner.pc = "returned"
    /\ runner.err = NoErr
    /\ Len(container.Moved) > 0
    /\ Len(container.RefactoredInPlace) > 0

\* C25: when ProcessFiles kept a failure, Execute returns it and changes
\* nothing on disk: the changes filed for the other files are not applied
\* and no pruning runs.
C25_FailureMeansNoMutation ==
    (runner.mode = "Execute" /\ ppc = "done"
       /\ container.FirstException # <<>>)
    => /\ runner.pc \in {"process", "returned"}
       /\ runner.pc = "returned" => runner.err = "FirstException"
       /\ files = files0
       /\ dirs = dirs0
       /\ pc = "idle"
       /\ applied = <<>>
       /\ sortedDirs = <<>>
       /\ removedDirs = <<>>

\* Execute returned the failure of one file; the change filed for another
\* was not applied
C25_Witness ==
    /\ runner.mode = "Execute"
    /\ runner.pc = "returned"
    /\ runner.err = "FirstException"
    /\ IsNotEmpty(container)
    /\ files = files0

\* os.ReadFile succeeded on every file ProcessFiles has handled
AllRead == \A i \in DOMAIN processed : processed[i].read

\* C26: with the no-op recipe and readable files, ProcessFiles files
\* nothing in the four buckets, and Execute reports that no changes were
\* made, returns no error and leaves the disk as it was.
C26_NoopChangesNothing ==
    (recipe = Noop /\ runner.mode = "Execute" /\ AllRead)
    => /\ ~IsNotEmpty(container)
       /\ files = files0
       /\ dirs = dirs0
       /\ pc = "idle"
       /\ (runner.pc = "returned" /\ processed # <<>>)
            => /\ runner.err = NoErr
               /\ runner.log[Len(runner.log)] = "No changes"

\* C27: with Config.Skip set, Execute and DryRun return at once without
\* error: the environment is not loaded, no file is discovered or
\* processed, nothing is applied or pruned, and the disk stays as it was.
C27_SkipDoesNothing ==
    config.Skip
    => /\ runner.pc \in {"start", "returned"}
       /\ runner.err = NoErr
       /\ ~runner.env
       /\ runner.pc = "returned" => runner.log = <<"Skipping">>
       /\ ppc = "idle"
       /\ sourceFiles = <<>>
       /\ processed = <<>>
       /\ pc = "idle"
       /\ files = files0
       /\ dirs = dirs0

\* a skipped dry run has returned, on a tree whose files the active recipe
\* would have changed
C27_Witness ==
    /\ config.Skip
    /\ runner.mode = "DryRun"
    /\ runner.pc = "returned"
    /\ \A p \in FilePaths : files[p] # Absent /\ recipe[p].Edit

-----------------------------------------------------------------------------
(* Runner.reportAndApplyResults up to the call of applyChanges, and
   Runner.formatDuration.  A time.Duration is counted in whole seconds. *)

Second == 1
Minute == 60
Hour == 60 * Minute

\* Result.TimeSaved of one change: the efforts a report is checked over
Efforts == {0, 1, 59, 60, 119, 3599, 3600, 4500}

\* a Result with its TimeSaved, as ProcessFiles puts it in each bucket
TimedResult(b, a, t) == [Before |-> b, After |-> a, TimeSaved |-> t]
InBucket(name, t) ==
    LET before == SourceFile(<<"f">>, DiskContent)
        after == SourceFile(<<"f">>, NewContent)
        moved == SourceFile(<<"a", "f">>, DiskContent)
    IN  CASE name = "Generated" -> TimedResult(Nil, after, t)
          [] name = "Deleted" -> TimedResult(before, Nil, t)
          [] name = "Moved" -> TimedResult(before, moved, t)
          [] OTHER -> TimedResult(before, after, t)

\* the container holding the changes of seq, a sequence of <<bucket, effort>>
RECURSIVE Bucketed(_)
Bucketed(seq) ==
    IF seq = <<>> THEN ReportIdle.results
    ELSE LET rest == Bucketed(SubSeq(seq, 1, Len(seq) - 1))
             last == seq[Len(seq)]
         IN  [rest EXCEPT ![last[1]] = Append(@, InBucket(last[1], last[2]))]

\* totalTimeSaved += result.TimeSaved over the entries of one bucket that
\* pass the loop's nil test
Reported(name, r) ==
    CASE name = "Generated" -> r.After # Nil
      [] name = "Deleted" -> r.Before # Nil
      [] name = "Moved" -> r.Before # Nil /\ r.After # Nil
      [] OTHER -> r.Before # Nil
RECURSIVE SumTimeSaved(_, _)
SumTimeSaved(rc, name) ==
    IF rc[name] = <<>> THEN 0
    ELSE (IF Reported(name, rc[name][1]) THEN rc[name][1].TimeSaved ELSE 0)
            + SumTimeSaved([rc EXCEPT ![name] = Tail(@)], name)

\* runner.go 93-126: the four loops
TotalTimeSaved(rc) ==
    SumTimeSaved(rc, "Generated") + SumTimeSaved(rc, "Deleted")
        + SumTimeSaved(rc, "Moved") + SumTimeSaved(rc, "RefactoredInPlace")

\* the durations d, at the middle between two tenths of an hour and no
\* multiple of a quarter of an hour, for which the float64 d.Hours() computes
\* lies above the middle (durations of up to five hours)
HoursAboveTie ==
    {3780, 4860, 5580, 6660, 8460, 8820, 10260, 10620, 12060, 12420, 13860,
     14220, 14940, 16020, 16740, 17820}

\* fmt.Sprintf("%.1f", d.Hours()) as a number of tenths: the tenth nearest
\* to the float64; a float64 exactly in the middle goes to the even tenth
HoursTenths(d) ==
    LET below == d \div (Hour \div 10)
        rest == d % (Hour \div 10)
        half == Hour \div 20
        up == IF rest # half THEN rest > half
              ELSE IF d % (Hour \div 4) = 0 THEN below % 2 = 1
              ELSE d \in HoursAboveTie
    IN  IF up THEN below + 1 ELSE below

\* Runner.formatDuration: the text, as its unit and its digits
Text(unit, whole, tenth) == [unit |-> unit, whole |-> whole, tenth |-> tenth]
formatDurationNoMinutes(d) ==
    IF d < Second THEN Text("< 1 second", 0, 0)
    ELSE IF d < Minute THEN Text("seconds", d \div Second, 0)
    ELSE Text("hours", HoursTenths(d) \div 10, HoursTenths(d) % 10)
formatDuration(d) ==
    IF d < Second THEN Text("< 1 second", 0, 0)
    ELSE IF d < Minute THEN Text("seconds", d \div Second, 0)
    ELSE IF d < Hour THEN Text("minutes", d \div Minute, 0)
    ELSE Text("hours", HoursTenths(d) \div 10, HoursTenths(d) % 10)

\* reportAndApplyResults is called with a container of up to MaxChanges
\* changes; Execute calls it for no empty container (runner.go 74-77)
InitReport ==
    /\ files = [p \in FilePaths |-> Absent]
    /\ ApplyIdle
    /\ ProcessIdle
    /\ MatchIdle
    /\ config = ZeroConfig
    /\ walk = WalkIdle
    /\ runner = RunnerIdle
    /\ \E n \in 1..MaxChanges :
          \E seq \in [1..n -> BucketNames \X Efforts] :
             report = [ReportIdle EXCEPT !.results = Bucketed(seq),
                                         !.pc = "report"]

\* runner.go 90-129: the total over the four buckets and the line
\* "Estimate time saved: %s"
Report ==
    /\ report.pc = "report"
    /\ report' = [report EXCEPT
                    !.totalTimeSaved = TotalTimeSaved(report.results),
                    !.text = formatDuration(TotalTimeSaved(report.results)),
                    !.pc = "reported"]
    /\ UNCHANGED <<config, walk, runner>>
    /\ UNCHANGED <<applyVars, processVars, matchVars>>

SpecReport == InitReport /\ [][Report]_vars

\* the sum of the TimeSaved of every change of the four buckets
RECURSIVE EffortOf(_)
EffortOf(bucket) ==
    IF bucket = <<>> THEN 0 ELSE bucket[1].TimeSaved + EffortOf(Tail(bucket))
EffortTotal ==
    EffortOf(report.results.Generated) + EffortOf(report.results.Deleted)
        + EffortOf(report.results.Moved)
        + EffortOf(report.results.RefactoredInPlace)

\* the text names the hours to one decimal place: no other tenth is nearer
NearestTenth(text, d) ==
    /\ text.unit = "hours"
    /\ text.tenth \in 0..9
    /\ LET tenths == 10 * text.whole + text.tenth
       IN  /\ 2 * (Hour \div 10) * tenths - 2 * d <= Hour \div 10
           /\ 2 * d - 2 * (Hour \div 10) * tenths <= Hour \div 10

\* C22, as stated: the effort total of the apply report is the sum of the
\* efforts of all changes of the four buckets, and it is rendered as a whole
\* number of seconds when under one minute, as a whole number of minutes
\* when under one hour, and as hours with one decimal place otherwise.
C22_TotalRenderedByMagnitude ==
    report.pc = "reported"
    => /\ report.totalTimeSaved = EffortTotal
       /\ EffortTotal < Minute
            => report.text = Text("seconds", EffortTotal, 0)
       /\ (EffortTotal >= Minute /\ EffortTotal < Hour)
            => report.text = Text("minutes", EffortTotal \div Minute, 0)
       /\ EffortTotal >= Hour => NearestTenth(report.text, EffortTotal)

\* C22, amended: the effort total of the apply report is the sum of the
\* efforts of all changes of the four buckets; it is rendered as the fixed
\* text "< 1 second" when under one second, as a whole number of seconds
\* when at least one second and under one minute, as a whole number of
\* minutes (the full minutes) when under one hour, and as hours with one
\* decimal place otherwise.
C22_TotalRenderedByMagnitudeFromOneSecond ==
    report.pc = "reported"
    => /\ report.totalTimeSaved = EffortTotal
       /\ EffortTotal < Second => report.text = Text("< 1 second", 0, 0)
       /\ (EffortTotal >= Second /\ EffortTotal < Minute)
            => report.text = Text("seconds", EffortTotal, 0)
       /\ (EffortTotal >= Minute /\ EffortTotal < Hour)
            => report.text = Text("minutes", EffortTotal \div Minute, 0)
       /\ EffortTotal >= Hour => NearestTenth(report.text, EffortTotal)

\* a report over changes in two buckets whose efforts add up to an hour and
\* a quarter, rendered as 1.2 hours
C22_Witness ==
    /\ report.pc = "reported"
    /\ Len(report.results.Moved) = 1
    /\ Len(report.results.Generated) = 1
    /\ report.totalTimeSaved = Hour + Hour \div 4
    /\ report.text = Text("hours", 1, 2)

====
